---- MODULE Spec2Model ----
(***************************************************************************)
(* Counseling portal (sathi-connect-care): the relational store with its   *)
(* row-level-security policies and constraints (profiles, conversations,   *)
(* messages, appointments, video sessions), the chat client's realtime     *)
(* message merge and its failing requests, the appointment dashboard, the  *)
(* join-window gate and the video-call room creation.                      *)
(*                                                                         *)
(* Time is an integer.  In the store and chat specifications one unit is   *)
(* one clock reading; in the join-window specification it is one           *)
(* millisecond, as in the code (Date.getTime()).                           *)
(***************************************************************************)
EXTENDS Integers, Sequences, FiniteSets, TLC

\* ------------------------------------------------------------------ bounds
MaxConversations == 2
MaxMessages == 2
MaxApiConversations == 1
MaxApiMessages == 1
MaxAppointments == 1
MaxTime == 1
MaxVideoSessions == 2

\* ------------------------------------------------------- identities, enums
\* profiles.role is user_role: one profile of each role.
Profiles == {"s1", "k1", "a1"}

Role == [p \in Profiles |->
           IF p = "s1" THEN "student" ELSE IF p = "k1" THEN "counselor" ELSE "admin"]

\* auth.uid() of a request without a session is NULL: it equals no profile id.
NoUser == "anon"

Callers == Profiles \cup {NoUser}

ConversationStatuses == {"active", "ended", "archived"}

AppointmentTypes == {"chat", "video", "in_person"}

AppointmentStatuses == {"scheduled", "confirmed", "in_progress", "completed", "cancelled"}

MessageStatuses == {"sent", "delivered", "read"}

\* Text is the sequence of its characters.  The text of a message as typed
\* (non-blank), and the text an edit would put in its place.
Typed == <<"h", "i">>

Edited == <<"h", "i", "!">>

\* What the user types into the message input: nothing, blanks, a text, a text
\* between blanks.
Drafts == {<<>>, <<" ">>, Typed, <<" ">> \o Typed \o <<" ">>}

\* String.prototype.trim(): the text without its leading and trailing white space
RECURSIVE TrimStart(_)
TrimStart(text) ==
    IF text # <<>> /\ Head(text) = " " THEN TrimStart(Tail(text)) ELSE text

RECURSIVE TrimEnd(_)
TrimEnd(text) ==
    IF text # <<>> /\ text[Len(text)] = " " THEN TrimEnd(SubSeq(text, 1, Len(text) - 1))
    ELSE text

Trim(text) == TrimEnd(TrimStart(text))

\* The instants a form's datetime-local fields are filled with (0 is the empty field).
Slots == {1, 2}

\* 15 * 60000 in canJoinCall: milliseconds per minute, minutes of lead
MinuteMs == 60000

JoinLeadMinutes == 15

NoRow == [absent |-> TRUE]

NoRequest == [table |-> "none", op |-> "none", caller |-> NoUser, id |-> 0,
              old |-> NoRow, new |-> NoRow, result |-> "none"]

NoConversation == 0

\* video_call_sessions.appointment_id is nullable: NULL
NoAppointment == 0

\* The owner of the tables.  ENABLE (not FORCE) ROW LEVEL SECURITY leaves the
\* owner's statements outside the policies; constraints apply to them all the same.
Owner == "postgres"

VARIABLES
    \* ---- the store
    chat_conversations,   \* table: row id = index
    chat_messages,        \* table: row id = index
    appointments,         \* table: row id = index
    now,                  \* the clock (NOW() on the server, new Date() on the client)
    resp,                 \* the last request made directly against the store
    \* ---- ChatInterface (one mounted client)
    profile,              \* useAuth().profile: the acting identity of the client
    conversations,        \* useState<Conversation[]>: ids, in list order
    convReq,              \* TRUE while the mount effect's fetchConversations is in flight
    selectedConversation, \* useState<string | null>: NoConversation is null
    messages,             \* useState<Message[]>: ids of the enriched rows, in list order
    channels,             \* the subscribed realtime channels, each by its conversation_id filter
    effectDep,            \* selectedConversation as of the last run of the subscription effect
    historyReqs,          \* fetchMessages calls in flight
    notifications,        \* INSERT events in flight on the channel, oldest first
    msgReqs,              \* fetchMessageWithSender calls in flight (message ids)
    send,                 \* position of the sendMessage call
    history,              \* the rows the last applied fetchMessages response carried
    arrived,              \* ids whose INSERT event reached the callback, in arrival order
    pushed,               \* ids appended by fetchMessageWithSender since messages was last set
    \* ---- AppointmentDashboard
    appointmentForm,      \* useState of the create dialog's form
    canJoin,              \* what canJoinCall returned at the last render
    \* ---- the store, continued
    profiles,             \* table: row id = the user's id
    video_call_sessions,  \* table: row id = index
    \* ---- VideoCallInterface
    isCreating,           \* useState(false): createVideoCall is under way
    createCall,           \* position of the createVideoCall call
    opened,               \* the URLs given to window.open, by room id
    \* ---- the page
    toast,                \* the toast last shown (useToast)
    logged,               \* the messages written with console.error
    \* ---- further component state
    newMessage,           \* ChatInterface: useState(''), the draft, as its characters
    roomId,               \* VideoCallInterface: useState(''), the room id typed in
    appointmentList,      \* AppointmentDashboard: useState<Appointment[]>: ids, in list order
    apptReq,              \* TRUE while a fetchAppointments call is in flight
    issued                \* per handler: the write requests its last call sent to the
                          \* store, each with its result

dbVars == <<chat_conversations, chat_messages, appointments>>

chatVars == <<profile, conversations, convReq, selectedConversation, messages, channels,
              effectDep, historyReqs, notifications, msgReqs, send, history, arrived, pushed>>

apptVars == <<appointmentForm, canJoin>>

videoVars == <<video_call_sessions, isCreating, createCall, opened>>

uiVars == <<toast, logged>>

viewVars == <<newMessage, roomId, appointmentList, apptReq, issued>>

vars == <<chat_conversations, chat_messages, appointments, now, resp,
          profile, conversations, convReq, selectedConversation, messages, channels,
          effectDep, historyReqs, notifications, msgReqs, send, history, arrived, pushed,
          appointmentForm, canJoin,
          profiles, video_call_sessions, isCreating, createCall, opened, toast, logged,
          newMessage, roomId, appointmentList, apptReq, issued>>

\* ------------------------------------------------- row-level-security policies
\* "Users can view own conversations" / "Participants can update conversations"
IsParticipant(uid, row) == uid = row.student_id \/ uid = row.counselor_id

ConversationSelectPolicy(uid, row) == IsParticipant(uid, row)

\* "Students can create conversations": WITH CHECK (auth.uid() = student_id)
ConversationInsertPolicy(uid, row) == uid = row.student_id

ConversationUpdatePolicy_StudentOnly(uid, old, new) ==
    uid = old.student_id /\ IsParticipant(uid, new)

\* FOR UPDATE USING (...) with no WITH CHECK: PostgreSQL applies the USING
\* expression to the existing row and, as the check, to the row as updated.
ConversationUpdatePolicy(uid, old, new) == IsParticipant(uid, old) /\ IsParticipant(uid, new)

\* EXISTS (SELECT 1 FROM chat_conversations WHERE id = conversation_id AND (...))
ParticipantOfConversation(uid, cid) ==
    /\ cid \in 1..Len(chat_conversations)
    /\ IsParticipant(uid, chat_conversations[cid])

MessageSelectPolicy_SenderOnly(uid, row) == uid = row.sender_id

\* "Users can view messages in their conversations"
MessageSelectPolicy(uid, row) == ParticipantOfConversation(uid, row.conversation_id)

MessageInsertPolicy_AnySender(uid, row) ==
    ParticipantOfConversation(uid, row.conversation_id)

\* "Users can insert messages in their conversations"
MessageInsertPolicy(uid, row) ==
    uid = row.sender_id /\ ParticipantOfConversation(uid, row.conversation_id)

\* "Users can view own appointments" / "Students can create appointments" /
\* "Participants can update appointments" (USING only: see ConversationUpdatePolicy)
AppointmentSelectPolicy(uid, row) == IsParticipant(uid, row)

AppointmentInsertPolicy_AnyParticipant(uid, row) == IsParticipant(uid, row)

AppointmentInsertPolicy(uid, row) == uid = row.student_id

AppointmentUpdatePolicy(uid, old, new) == IsParticipant(uid, old) /\ IsParticipant(uid, new)

\* --------------------------------------------------------------- the tables
\* chat_conversations: status DEFAULT 'active', last_message_at DEFAULT NOW()
NewConversation(student, counselor) ==
    [student_id |-> student, counselor_id |-> counselor,
     status |-> "active", last_message_at |-> now]

\* chat_messages: status DEFAULT 'sent', created_at DEFAULT NOW()
NewMessage(cid, sender, content) ==
    [conversation_id |-> cid, sender_id |-> sender, content |-> content,
     status |-> "sent", created_at |-> now]

\* appointments: status DEFAULT 'scheduled'; no CHECK relates the two timestamps
NewAppointment(student, counselor, type, start, end) ==
    [student_id |-> student, counselor_id |-> counselor, appointment_type |-> type,
     status |-> "scheduled", scheduled_start |-> start, scheduled_end |-> end]

\* The outcome of a write: the policy's verdict (a row the policy admits is stored).
InsertConversationResult(uid, row) ==
    IF ConversationInsertPolicy(uid, row) THEN "ok" ELSE "PolicyDenied"

UpdateConversationResult(uid, old, new) ==
    IF ConversationUpdatePolicy(uid, old, new) THEN "ok" ELSE "PolicyDenied"

InsertMessageResult(uid, row) ==
    IF MessageInsertPolicy(uid, row) THEN "ok" ELSE "PolicyDenied"

InsertAppointmentResult(uid, row) ==
    IF AppointmentInsertPolicy(uid, row) THEN "ok" ELSE "PolicyDenied"

UpdateAppointmentResult(uid, old, new) ==
    IF AppointmentUpdatePolicy(uid, old, new) THEN "ok" ELSE "PolicyDenied"

\* The realtime bridge: an INSERT on chat_messages is pushed to the subscribed
\* channel when its filter conversation_id=eq.<id> matches the new row.
Broadcast(row, id) ==
    IF row.conversation_id \in channels
    THEN Append(notifications, [filter |-> row.conversation_id, id |-> id])
    ELSE notifications

Request(table, op, uid, id, old, new, result) ==
    [table |-> table, op |-> op, caller |-> uid, id |-> id,
     old |-> old, new |-> new, result |-> result]

\* ------------------------------------------------------------------- Init
EmptyForm ==
    [counselor_id |-> "", appointment_type |-> "video", scheduled_start |-> 0, scheduled_end |-> 0]

NotRendered == [rendered |-> FALSE, at |-> 0, value |-> FALSE]

Idle == [pc |-> "idle", conv |-> NoConversation, msg |-> 0]

\* handle_new_user: the profile row written at sign-up, with the role of the metadata.
\* A row the table does not hold is NoRow.
SignedUp == [p \in Profiles |-> [id |-> p, role |-> Role[p], is_active |-> TRUE]]

\* createVideoCall has not been called.
NoCall == [pc |-> "idle", room |-> "", result |-> "none"]

\* No toast has been shown yet.
NoToast == [title |-> "", description |-> "", variant |-> "default"]

\* toast({ title: "Error", description, variant: "destructive" })
ErrorToast(description) ==
    [title |-> "Error", description |-> description, variant |-> "destructive"]

\* toast({ title: "Success", description })
SuccessToast(description) ==
    [title |-> "Success", description |-> description, variant |-> "default"]

\* A write request a handler sent, and what came back.
Write(request, result) == [write |-> request, result |-> result]

\* No handler has been called.
NoneIssued ==
    [sendMessage |-> <<>>, createConversation |-> <<>>, createAppointment |-> <<>>,
     createVideoCall |-> <<>>]

\* The state after the components are mounted for profile p (NoUser: the profile
\* is not loaded, and the mount effects fetch nothing).
InitAs(p) ==
    /\ chat_conversations = <<>>
    /\ chat_messages = <<>>
    /\ appointments = <<>>
    /\ now = 0
    /\ resp = NoRequest
    /\ profile = p
    /\ conversations = <<>>
    /\ convReq = (p # NoUser)
    /\ selectedConversation = NoConversation
    /\ messages = <<>>
    /\ channels = {}
    /\ effectDep = NoConversation
    /\ historyReqs = {}
    /\ notifications = <<>>
    /\ msgReqs = {}
    /\ send = Idle
    /\ history = <<>>
    /\ arrived = <<>>
    /\ pushed = <<>>
    /\ appointmentForm = EmptyForm
    /\ canJoin = NotRendered
    /\ profiles = SignedUp
    /\ video_call_sessions = <<>>
    /\ isCreating = FALSE
    /\ createCall = NoCall
    /\ opened = {}
    /\ toast = NoToast
    /\ logged = {}
    /\ newMessage = <<>>
    /\ roomId = <<>>
    /\ appointmentList = <<>>
    /\ apptReq = (p # NoUser)
    /\ issued = NoneIssued

\* The student's client.
Init == InitAs("s1")

\* Any profile's client, or one whose profile is not loaded.
InitAny == \E p \in Profiles \cup {NoUser} : InitAs(p)

\* ------------------------------------- requests made directly against the store
\* Any caller may issue any request; the policies decide.
ApiInsertConversation(uid, student, counselor) ==
    LET row == NewConversation(student, counselor)
        r == InsertConversationResult(uid, row)
    IN /\ Len(chat_conversations) < MaxApiConversations
       /\ chat_conversations' = IF r = "ok" THEN Append(chat_conversations, row)
                                 ELSE chat_conversations
       /\ resp' = Request("chat_conversations", "insert", uid,
                          Len(chat_conversations) + 1, NoRow, row, r)
       /\ UNCHANGED <<viewVars, profiles, videoVars, uiVars,
                      chat_messages, appointments, now, chatVars, apptVars>>

\* The columns an UPDATE may set: no policy or trigger restricts them.
ConversationPatches(old) ==
    {[old EXCEPT !.status = st] : st \in ConversationStatuses}
        \cup {[old EXCEPT !.last_message_at = now]}
        \cup {[old EXCEPT !.student_id = p] : p \in Profiles}
        \cup {[old EXCEPT !.counselor_id = p] : p \in Profiles}

ApiUpdateConversation(uid, id, new) ==
    LET old == chat_conversations[id]
        r == UpdateConversationResult(uid, old, new)
    IN /\ new # old
       /\ chat_conversations' = IF r = "ok" THEN [chat_conversations EXCEPT ![id] = new]
                                 ELSE chat_conversations
       /\ resp' = Request("chat_conversations", "update", uid, id, old, new, r)
       /\ UNCHANGED <<viewVars, profiles, videoVars, uiVars,
                      chat_messages, appointments, now, chatVars, apptVars>>

ApiSelectConversation(uid, id) ==
    LET row == chat_conversations[id]
    IN /\ resp' = Request("chat_conversations", "select", uid, id, row, NoRow,
                          IF ConversationSelectPolicy(uid, row) THEN "ok" ELSE "PolicyDenied")
       /\ UNCHANGED <<viewVars, profiles, videoVars, uiVars,
                      dbVars, now, chatVars, apptVars>>

ApiInsertMessage(uid, row) ==
    LET r == InsertMessageResult(uid, row)
        id == Len(chat_messages) + 1
    IN /\ Len(chat_messages) < MaxMessages
       /\ chat_messages' = IF r = "ok" THEN Append(chat_messages, row) ELSE chat_messages
       /\ notifications' = IF r = "ok" THEN Broadcast(row, id) ELSE notifications
       /\ resp' = Request("chat_messages", "insert", uid, id, NoRow, row, r)
       /\ UNCHANGED <<viewVars, profiles, videoVars, uiVars,
                      chat_conversations, appointments, now, appointmentForm, canJoin,
                      profile, conversations, convReq, selectedConversation, messages,
                      channels, effectDep, historyReqs, msgReqs, send, history, arrived,
                      pushed>>

ApiSelectMessage(uid, id) ==
    LET row == chat_messages[id]
    IN /\ resp' = Request("chat_messages", "select", uid, id, row, NoRow,
                          IF MessageSelectPolicy(uid, row) THEN "ok" ELSE "PolicyDenied")
       /\ UNCHANGED <<viewVars, profiles, videoVars, uiVars,
                      dbVars, now, chatVars, apptVars>>

\* The conversation table alone: every request any caller can make of it.
NextConv ==
    \/ \E uid \in Callers, st \in Profiles, co \in Profiles :
          ApiInsertConversation(uid, st, co)
    \/ \E uid \in Callers, id \in 1..Len(chat_conversations) :
          \E new \in ConversationPatches(chat_conversations[id]) :
             ApiUpdateConversation(uid, id, new)
    \/ \E uid \in Callers, id \in 1..Len(chat_conversations) :
          ApiSelectConversation(uid, id)

SpecConv == Init /\ [][NextConv]_vars

\* The patches that change who the participants are (what the message policies join on).
ParticipantPatches(old) ==
    {new \in ConversationPatches(old) :
        new.student_id # old.student_id \/ new.counselor_id # old.counselor_id}

\* The message table, with the conversation requests its policies depend on.
NextMsg ==
    \/ \E uid \in Callers, st \in Profiles, co \in Profiles :
          ApiInsertConversation(uid, st, co)
    \/ \E uid \in Callers, id \in 1..Len(chat_conversations) :
          \E new \in ParticipantPatches(chat_conversations[id]) :
             ApiUpdateConversation(uid, id, new)
    \/ \E uid \in Callers, cid \in 1..MaxApiConversations + 1, sender \in Profiles :
          /\ Len(chat_messages) < MaxApiMessages
          /\ ApiInsertMessage(uid, NewMessage(cid, sender, Typed))
    \/ \E uid \in Callers, id \in 1..Len(chat_messages) :
          ApiSelectMessage(uid, id)

SpecMsg == Init /\ [][NextMsg]_vars

\* ----------------------------------------------------------- appointments
ApiInsertAppointment(uid, student, counselor, type, start, end) ==
    LET row == NewAppointment(student, counselor, type, start, end)
        r == InsertAppointmentResult(uid, row)
    IN /\ Len(appointments) < MaxAppointments
       /\ appointments' = IF r = "ok" THEN Append(appointments, row) ELSE appointments
       /\ resp' = Request("appointments", "insert", uid, Len(appointments) + 1, NoRow, row, r)
       /\ UNCHANGED <<viewVars, profiles, videoVars, uiVars,
                      chat_conversations, chat_messages, now, chatVars, apptVars>>

\* The columns an UPDATE may set: no policy or trigger restricts them.
AppointmentPartyPatches(old) ==
    {[old EXCEPT !.student_id = p] : p \in Profiles}
        \cup {[old EXCEPT !.counselor_id = p] : p \in Profiles}

AppointmentStatusPatches(old) == {[old EXCEPT !.status = st] : st \in AppointmentStatuses}

AppointmentTimePatches(old) ==
    {[old EXCEPT !.scheduled_start = t] : t \in Slots}
        \cup {[old EXCEPT !.scheduled_end = t] : t \in Slots}

ApiUpdateAppointment(uid, id, new) ==
    LET old == appointments[id]
        r == UpdateAppointmentResult(uid, old, new)
    IN /\ new # old
       /\ appointments' = IF r = "ok" THEN [appointments EXCEPT ![id] = new] ELSE appointments
       /\ resp' = Request("appointments", "update", uid, id, old, new, r)
       /\ UNCHANGED <<viewVars, profiles, videoVars, uiVars,
                      chat_conversations, chat_messages, now, chatVars, apptVars>>

ApiSelectAppointment(uid, id) ==
    LET row == appointments[id]
    IN /\ resp' = Request("appointments", "select", uid, id, row, NoRow,
                          IF AppointmentSelectPolicy(uid, row) THEN "ok" ELSE "PolicyDenied")
       /\ UNCHANGED <<viewVars, profiles, videoVars, uiVars,
                      dbVars, now, chatVars, apptVars>>

\* The appointment table: the requests any caller can make of it.
NextAppt ==
    \/ \E uid \in Callers, st \in Profiles :
          ApiInsertAppointment(uid, st, "k1", "video", 1, 2)
    \/ \E uid \in Callers, id \in 1..Len(appointments) :
          \E new \in AppointmentPartyPatches(appointments[id])
                        \cup AppointmentStatusPatches(appointments[id]) :
             ApiUpdateAppointment(uid, id, new)
    \/ \E uid \in Callers, id \in 1..Len(appointments) :
          ApiSelectAppointment(uid, id)

SpecAppt == Init /\ [][NextAppt]_vars

\* ---- AppointmentDashboard
\* What the create dialog's inputs can be set to.
FormValues ==
    [counselor_id |-> {"", "k1"}, appointment_type |-> AppointmentTypes,
     scheduled_start |-> Slots, scheduled_end |-> Slots]

\* The create dialog's onChange handlers.
SetAppointmentForm(field, value) ==
    /\ appointmentForm' = [appointmentForm EXCEPT ![field] = value]
    /\ appointmentForm' # appointmentForm
    /\ UNCHANGED <<viewVars, profiles, videoVars, uiVars,
                   dbVars, now, resp, chatVars, canJoin>>

\* createAppointment sending the insert a second time when the first is rejected
CreateAppointment_Retry(delivered) ==
    LET f == appointmentForm
        row == NewAppointment(profile, f.counselor_id, f.appointment_type,
                              f.scheduled_start, f.scheduled_end)
        first == IF delivered THEN InsertAppointmentResult(profile, row) ELSE "NetworkError"
        r == InsertAppointmentResult(profile, row)
    IN /\ ~(profile = NoUser \/ f.counselor_id = "" \/ f.scheduled_start = 0
                \/ f.scheduled_end = 0)
       /\ Len(appointments) < MaxAppointments
       /\ issued' = [issued EXCEPT !.createAppointment =
                        IF first = "ok" THEN <<Write("appointments.insert", first)>>
                        ELSE <<Write("appointments.insert", first),
                               Write("appointments.insert", r)>>]
       /\ apptReq' = IF r = "ok" THEN TRUE ELSE apptReq
       /\ appointments' = IF r = "ok" THEN Append(appointments, row) ELSE appointments
       /\ appointmentForm' = IF r = "ok" THEN EmptyForm ELSE appointmentForm
       /\ resp' = Request("appointments", "insert", profile, Len(appointments) + 1, NoRow, row, r)
       /\ toast' = IF r = "ok" THEN SuccessToast("Appointment created successfully")
                    ELSE ErrorToast("Failed to create appointment")
       /\ logged' = IF r = "ok" THEN logged
                     ELSE logged \cup {"Error creating appointment:"}
       /\ UNCHANGED <<newMessage, roomId, appointmentList, profiles, videoVars,
                      chat_conversations, chat_messages, now, chatVars, canJoin>>

\* createAppointment: the required-field test, then the insert as the profile;
\* on success the success toast is shown and the form is reset, on an error the
\* error is logged and shown as the error toast and the form is kept.
CreateAppointment(delivered) ==
    LET f == appointmentForm
        row == NewAppointment(profile, f.counselor_id, f.appointment_type,
                              f.scheduled_start, f.scheduled_end)
        r == IF delivered THEN InsertAppointmentResult(profile, row) ELSE "NetworkError"
    IN /\ ~(profile = NoUser \/ f.counselor_id = "" \/ f.scheduled_start = 0
                \/ f.scheduled_end = 0)
       /\ Len(appointments) < MaxAppointments
       /\ issued' = [issued EXCEPT !.createAppointment = <<Write("appointments.insert", r)>>]
       /\ apptReq' = IF r = "ok" THEN TRUE ELSE apptReq
       /\ appointments' = IF r = "ok" THEN Append(appointments, row) ELSE appointments
       /\ appointmentForm' = IF r = "ok" THEN EmptyForm ELSE appointmentForm
       /\ resp' = Request("appointments", "insert", profile, Len(appointments) + 1, NoRow, row, r)
       /\ toast' = IF r = "ok" THEN SuccessToast("Appointment created successfully")
                    ELSE ErrorToast("Failed to create appointment")
       /\ logged' = IF r = "ok" THEN logged
                     ELSE logged \cup {"Error creating appointment:"}
       /\ UNCHANGED <<newMessage, roomId, appointmentList, profiles, videoVars,
                      chat_conversations, chat_messages, now, chatVars, canJoin>>

\* createAppointment without a profile or with a required field empty: the
\* error toast is shown and the call returns.
CreateAppointmentReturn ==
    LET f == appointmentForm
    IN /\ (profile = NoUser \/ f.counselor_id = "" \/ f.scheduled_start = 0
              \/ f.scheduled_end = 0)
       /\ toast' = ErrorToast("Please fill in all required fields")
       /\ issued' = [issued EXCEPT !.createAppointment = <<>>]
       /\ UNCHANGED <<newMessage, roomId, appointmentList, apptReq, profiles, videoVars,
                      logged, dbVars, now, resp, chatVars, apptVars>>

\* .order('scheduled_start', { ascending: true }); equal keys in id order
RECURSIVE OrderByScheduledStart(_)
OrderByScheduledStart(ids) ==
    IF ids = {} THEN <<>>
    ELSE LET first == CHOOSE x \in ids : \A y \in ids :
                        \/ appointments[x].scheduled_start < appointments[y].scheduled_start
                        \/ /\ appointments[x].scheduled_start = appointments[y].scheduled_start
                           /\ x <= y
         IN <<first>> \o OrderByScheduledStart(ids \ {first})

\* fetchAppointments' query: the rows the policy shows, filtered by the role's column
AppointmentsQuery ==
    OrderByScheduledStart(
        {a \in 1..Len(appointments) :
            /\ appointments[a] # NoRow
            /\ AppointmentSelectPolicy(profile, appointments[a])
            /\ IF Role[profile] = "student"
               THEN appointments[a].student_id = profile
               ELSE appointments[a].counselor_id = profile})

\* A fetchAppointments call answers: setAppointments(data).
FetchAppointmentsDone ==
    /\ apptReq
    /\ apptReq' = FALSE
    /\ appointmentList' = AppointmentsQuery
    /\ UNCHANGED <<newMessage, roomId, issued, profiles, videoVars, uiVars,
                   dbVars, now, resp, chatVars, apptVars>>

\* The dashboard of the student, and the rescheduling requests of any caller.
NextDash ==
    \/ \E field \in DOMAIN FormValues : \E value \in FormValues[field] :
          SetAppointmentForm(field, value)
    \/ CreateAppointment(TRUE)
    \/ \E uid \in Callers, id \in 1..Len(appointments) :
          \E new \in AppointmentTimePatches(appointments[id]) :
             ApiUpdateAppointment(uid, id, new)

SpecDash == Init /\ [][NextDash]_vars

\* ---- the join window
canJoinCall_TenMinutes(appointment) ==
    LET startTime == appointment.scheduled_start
        endTime == appointment.scheduled_end
        joinTime == startTime - 10 * MinuteMs
    IN /\ now >= joinTime /\ now <= endTime
       /\ appointment.status # "cancelled"
       /\ appointment.appointment_type = "video"

canJoinCall(appointment) ==
    LET startTime == appointment.scheduled_start
        endTime == appointment.scheduled_end
        joinTime == startTime - JoinLeadMinutes * MinuteMs
    IN /\ now >= joinTime /\ now <= endTime
       /\ appointment.status # "cancelled"
       /\ appointment.appointment_type = "video"

\* A scheduled start T and the clock readings around the window's two ends.
JoinT == 60 * MinuteMs

JoinClock ==
    {JoinT + d : d \in {-16 * MinuteMs, -15 * MinuteMs - 1, -15 * MinuteMs, -1, 0,
                        30 * MinuteMs, 30 * MinuteMs + 1, 31 * MinuteMs}}

InitJoin ==
    /\ \E ty \in AppointmentTypes, st \in AppointmentStatuses :
          appointments = <<[NewAppointment("s1", "k1", ty, JoinT, JoinT + 30 * MinuteMs)
                              EXCEPT !.status = st]>>
    /\ now \in JoinClock
    /\ chat_conversations = <<>>
    /\ chat_messages = <<>>
    /\ resp = NoRequest
    /\ profile = "s1"
    /\ conversations = <<>>
    /\ convReq = TRUE
    /\ selectedConversation = NoConversation
    /\ messages = <<>>
    /\ channels = {}
    /\ effectDep = NoConversation
    /\ historyReqs = {}
    /\ notifications = <<>>
    /\ msgReqs = {}
    /\ send = Idle
    /\ history = <<>>
    /\ arrived = <<>>
    /\ pushed = <<>>
    /\ appointmentForm = EmptyForm
    /\ canJoin = NotRendered
    /\ profiles = SignedUp
    /\ video_call_sessions = <<>>
    /\ isCreating = FALSE
    /\ createCall = NoCall
    /\ opened = {}
    /\ toast = NoToast
    /\ logged = {}
    /\ newMessage = <<>>
    /\ roomId = <<>>
    /\ appointmentList = <<>>
    /\ apptReq = TRUE
    /\ issued = NoneIssued

\* A render of the appointment card evaluates canJoinCall at the current time.
RenderAppointment ==
    /\ appointments # <<>>
    /\ canJoin' = [rendered |-> TRUE, at |-> now, value |-> canJoinCall(appointments[1])]
    /\ UNCHANGED <<viewVars, profiles, videoVars, uiVars,
                   dbVars, now, resp, chatVars, appointmentForm>>

ClockAdvance ==
    /\ \E t \in JoinClock : t > now /\ now' = t
    /\ UNCHANGED <<viewVars, profiles, videoVars, uiVars,
                   dbVars, resp, chatVars, apptVars>>

NextJoin == RenderAppointment \/ ClockAdvance

SpecJoin == InitJoin /\ [][NextJoin]_vars

\* ---- ChatInterface
\* fetchCounselors: profiles with role = 'counselor' (the New Chat buttons)
Counselors == {p \in Profiles : Role[p] = "counselor"}

\* .order('last_message_at', { ascending: false }); equal keys in id order
RECURSIVE OrderByLastMessageAtDesc(_)
OrderByLastMessageAtDesc(ids) ==
    IF ids = {} THEN <<>>
    ELSE LET first == CHOOSE x \in ids : \A y \in ids :
                        \/ chat_conversations[x].last_message_at > chat_conversations[y].last_message_at
                        \/ /\ chat_conversations[x].last_message_at = chat_conversations[y].last_message_at
                           /\ x <= y
         IN <<first>> \o OrderByLastMessageAtDesc(ids \ {first})

\* .order('created_at', { ascending: true }); equal keys in id order
RECURSIVE OrderByCreatedAt(_)
OrderByCreatedAt(ids) ==
    IF ids = {} THEN <<>>
    ELSE LET first == CHOOSE x \in ids : \A y \in ids :
                        \/ chat_messages[x].created_at < chat_messages[y].created_at
                        \/ /\ chat_messages[x].created_at = chat_messages[y].created_at
                           /\ x <= y
         IN <<first>> \o OrderByCreatedAt(ids \ {first})

\* fetchConversations' query without the role's filter: the rows the policy shows
ConversationsQuery_PolicyOnly ==
    OrderByLastMessageAtDesc(
        {c \in 1..Len(chat_conversations) :
            ConversationSelectPolicy(profile, chat_conversations[c])})

\* fetchConversations' query: the rows the policy shows, filtered by the role's column
ConversationsQuery ==
    OrderByLastMessageAtDesc(
        {c \in 1..Len(chat_conversations) :
            /\ ConversationSelectPolicy(profile, chat_conversations[c])
            /\ IF Role[profile] = "student"
               THEN chat_conversations[c].student_id = profile
               ELSE chat_conversations[c].counselor_id = profile})

\* fetchMessages' query: the rows the policy shows, of one conversation
MessagesQuery(conversationId) ==
    OrderByCreatedAt(
        {i \in 1..Len(chat_messages) :
            /\ MessageSelectPolicy(profile, chat_messages[i])
            /\ chat_messages[i].conversation_id = conversationId})

\* The mount effect's fetchConversations answers: setConversations(data).
FetchConversationsDone ==
    /\ convReq
    /\ convReq' = FALSE
    /\ conversations' = ConversationsQuery
    /\ UNCHANGED <<viewVars, profiles, videoVars, uiVars,
                   dbVars, now, resp, profile, selectedConversation, messages, channels,
                   effectDep, historyReqs, notifications, msgReqs, send, history, arrived,
                   pushed, apptVars>>

\* createConversation: insert as the profile, then prepend and select the new row
\* and show the success toast; an error is logged and shown as the error toast.
CreateConversation(counselorId, delivered) ==
    LET row == NewConversation(profile, counselorId)
        r == IF delivered THEN InsertConversationResult(profile, row) ELSE "NetworkError"
        id == Len(chat_conversations) + 1
    IN /\ profile # NoUser
       /\ Len(chat_conversations) < MaxConversations
       /\ issued' = [issued EXCEPT !.createConversation =
                                        <<Write("chat_conversations.insert", r)>>]
       /\ chat_conversations' = IF r = "ok" THEN Append(chat_conversations, row)
                                 ELSE chat_conversations
       /\ conversations' = IF r = "ok" THEN <<id>> \o conversations ELSE conversations
       /\ selectedConversation' = IF r = "ok" THEN id ELSE selectedConversation
       /\ toast' = IF r = "ok" THEN SuccessToast("New conversation started")
                    ELSE ErrorToast("Failed to start conversation")
       /\ logged' = IF r = "ok" THEN logged
                     ELSE logged \cup {"Error creating conversation:"}
       /\ UNCHANGED <<newMessage, roomId, appointmentList, apptReq, profiles, videoVars,
                      chat_messages, appointments, now, resp, profile, convReq, messages,
                      channels, effectDep, historyReqs, notifications, msgReqs, send,
                      history, arrived, pushed, apptVars>>

\* onClick of a conversation card: setSelectedConversation(conversation.id)
SelectConversation(c) ==
    /\ \E i \in 1..Len(conversations) : conversations[i] = c
    /\ c # selectedConversation
    /\ selectedConversation' = c
    /\ UNCHANGED <<viewVars, profiles, videoVars, uiVars,
                   dbVars, now, resp, profile, conversations, convReq, messages, channels,
                   effectDep, historyReqs, notifications, msgReqs, send, history, arrived,
                   pushed, apptVars>>

\* The cleanup the previous run of the effect returned: supabase.removeChannel(channel)
EffectCleanup_Keep(subscribed, dep) == subscribed

EffectCleanup(subscribed, dep) == subscribed \ {dep}

\* useEffect(..., [selectedConversation]): after a render in which the dependency
\* changed, the previous cleanup runs, then the effect body: fetchMessages is
\* issued and a channel filtered by the selected conversation is subscribed.
RunSubscriptionEffect ==
    LET kept == EffectCleanup(channels, effectDep)
    IN /\ effectDep # selectedConversation
       /\ effectDep' = selectedConversation
       /\ channels' = IF selectedConversation # NoConversation
                       THEN kept \cup {selectedConversation} ELSE kept
       /\ notifications' = SelectSeq(notifications, LAMBDA n : n.filter \in kept)
       /\ historyReqs' = IF selectedConversation # NoConversation
                          THEN historyReqs \cup {[conv |-> selectedConversation,
                                                   answered |-> FALSE, data |-> <<>>]}
                          ELSE historyReqs
       /\ UNCHANGED <<viewVars, profiles, videoVars, uiVars,
                      dbVars, now, resp, profile, conversations, convReq,
                      selectedConversation, messages, msgReqs, send, history, arrived,
                      pushed, apptVars>>

\* The store runs fetchMessages' select.
FetchMessagesQuery(req) ==
    /\ req \in historyReqs /\ ~req.answered
    /\ historyReqs' = (historyReqs \ {req})
                         \cup {[req EXCEPT !.answered = TRUE, !.data = MessagesQuery(req.conv)]}
    /\ UNCHANGED <<viewVars, profiles, videoVars, uiVars,
                   dbVars, now, resp, profile, conversations, convReq, selectedConversation,
                   messages, channels, effectDep, notifications, msgReqs, send, history,
                   arrived, pushed, apptVars>>

\* fetchMessages resumes with the answer: setMessages(data || [])
FetchMessagesResponse(req) ==
    /\ req \in historyReqs /\ req.answered
    /\ historyReqs' = historyReqs \ {req}
    /\ messages' = req.data
    /\ history' = req.data
    /\ pushed' = <<>>
    /\ UNCHANGED <<viewVars, profiles, videoVars, uiVars,
                   dbVars, now, resp, profile, conversations, convReq, selectedConversation,
                   channels, effectDep, notifications, msgReqs, send, arrived, apptVars>>

\* The channel's callback: fetchMessageWithSender(payload.new.id) is issued.
DeliverNotification ==
    /\ notifications # <<>>
    /\ notifications' = Tail(notifications)
    /\ msgReqs' = msgReqs \cup {Head(notifications).id}
    /\ arrived' = Append(arrived, Head(notifications).id)
    /\ UNCHANGED <<viewVars, profiles, videoVars, uiVars,
                   dbVars, now, resp, profile, conversations, convReq, selectedConversation,
                   messages, channels, effectDep, historyReqs, send, history, pushed,
                   apptVars>>

\* fetchMessageWithSender resumes with the row: setMessages(prev => [...prev, data]);
\* a row the policy hides makes .single() an error, which is logged.
FetchMessageResponse(id) ==
    LET visible == MessageSelectPolicy(profile, chat_messages[id])
    IN /\ id \in msgReqs
       /\ msgReqs' = msgReqs \ {id}
       /\ messages' = IF visible THEN Append(messages, id) ELSE messages
       /\ pushed' = IF visible THEN Append(pushed, id) ELSE pushed
       /\ logged' = IF visible THEN logged ELSE logged \cup {"Error fetching message:"}
       /\ UNCHANGED <<viewVars, profiles, videoVars, toast,
                      dbVars, now, resp, profile, conversations, convReq,
                      selectedConversation, channels, effectDep, historyReqs, notifications,
                      send, history, arrived, apptVars>>

\* sendMessage going on to the update whatever the insert returned
SendMessageInsert_UpdateAfterFailure(delivered) ==
    LET row == NewMessage(selectedConversation, profile, Trim(newMessage))
        r == IF delivered THEN InsertMessageResult(profile, row) ELSE "NetworkError"
        id == Len(chat_messages) + 1
    IN /\ send.pc # "update"
       /\ ~(Trim(newMessage) = <<>> \/ selectedConversation = NoConversation
                \/ profile = NoUser)
       /\ Len(chat_messages) < MaxMessages
       /\ issued' = [issued EXCEPT !.sendMessage = <<Write("chat_messages.insert", r)>>]
       /\ chat_messages' = IF r = "ok" THEN Append(chat_messages, row) ELSE chat_messages
       /\ notifications' = IF r = "ok" THEN Broadcast(row, id) ELSE notifications
       /\ send' = [pc |-> "update", conv |-> selectedConversation,
                   msg |-> IF r = "ok" THEN id ELSE 0]
       /\ UNCHANGED <<newMessage, roomId, appointmentList, apptReq, profiles, videoVars, uiVars,
                      chat_conversations, appointments, now, resp, profile, conversations,
                      convReq, selectedConversation, messages, channels, effectDep,
                      historyReqs, msgReqs, history, arrived, pushed, apptVars>>

\* sendMessage up to its first await: the insert as the profile.  An error is
\* thrown to the catch block; otherwise the update is issued next.  (The user has
\* typed a non-blank draft; one call runs at a time.)
SendMessageInsert(delivered) ==
    LET row == NewMessage(selectedConversation, profile, Trim(newMessage))
        r == IF delivered THEN InsertMessageResult(profile, row) ELSE "NetworkError"
        id == Len(chat_messages) + 1
    IN /\ send.pc # "update"
       /\ ~(Trim(newMessage) = <<>> \/ selectedConversation = NoConversation
                \/ profile = NoUser)
       /\ Len(chat_messages) < MaxMessages
       /\ issued' = [issued EXCEPT !.sendMessage = <<Write("chat_messages.insert", r)>>]
       /\ chat_messages' = IF r = "ok" THEN Append(chat_messages, row) ELSE chat_messages
       /\ notifications' = IF r = "ok" THEN Broadcast(row, id) ELSE notifications
       /\ send' = IF r = "ok" THEN [pc |-> "update", conv |-> selectedConversation, msg |-> id]
                   ELSE [pc |-> "failed", conv |-> selectedConversation, msg |-> 0]
       /\ toast' = IF r = "ok" THEN toast ELSE ErrorToast("Failed to send message")
       /\ logged' = IF r = "ok" THEN logged ELSE logged \cup {"Error sending message:"}
       /\ UNCHANGED <<newMessage, roomId, appointmentList, apptReq, profiles, videoVars,
                      chat_conversations, appointments, now, resp, profile, conversations,
                      convReq, selectedConversation, messages, channels, effectDep,
                      historyReqs, msgReqs, history, arrived, pushed, apptVars>>

\* sendMessage throwing on the update's error as it does on the insert's
SendMessageUpdate_Reported(delivered) ==
    LET old == chat_conversations[send.conv]
        new == [old EXCEPT !.last_message_at = now]
        r == IF delivered THEN UpdateConversationResult(profile, old, new) ELSE "NetworkError"
    IN /\ send.pc = "update"
       /\ chat_conversations' = IF r = "ok" THEN [chat_conversations EXCEPT ![send.conv] = new]
                                 ELSE chat_conversations
       /\ send' = [send EXCEPT !.pc = IF r = "ok" THEN "done" ELSE "failed"]
       /\ issued' = [issued EXCEPT !.sendMessage =
                                        Append(@, Write("chat_conversations.update", r))]
       /\ newMessage' = IF r = "ok" THEN <<>> ELSE newMessage
       /\ toast' = IF r = "ok" THEN toast ELSE ErrorToast("Failed to send message")
       /\ logged' = IF r = "ok" THEN logged ELSE logged \cup {"Error sending message:"}
       /\ UNCHANGED <<roomId, appointmentList, apptReq, profiles, videoVars,
                      chat_messages, appointments, now, resp, profile, conversations, convReq,
                      selectedConversation, messages, channels, effectDep, historyReqs,
                      notifications, msgReqs, history, arrived, pushed, apptVars>>

\* sendMessage after the insert: update last_message_at to new Date() where
\* id = the conversation selected when sendMessage was called.  The update's
\* result is not looked at; then setNewMessage('').
SendMessageUpdate(delivered) ==
    LET old == chat_conversations[send.conv]
        new == [old EXCEPT !.last_message_at = now]
        r == IF delivered THEN UpdateConversationResult(profile, old, new) ELSE "NetworkError"
    IN /\ send.pc = "update"
       /\ chat_conversations' = IF r = "ok" THEN [chat_conversations EXCEPT ![send.conv] = new]
                                 ELSE chat_conversations
       /\ send' = [send EXCEPT !.pc = "done"]
       /\ issued' = [issued EXCEPT !.sendMessage =
                                        Append(@, Write("chat_conversations.update", r))]
       /\ newMessage' = <<>>
       /\ UNCHANGED <<roomId, appointmentList, apptReq, profiles, videoVars, uiVars,
                      chat_messages, appointments, now, resp, profile, conversations, convReq,
                      selectedConversation, messages, channels, effectDep, historyReqs,
                      notifications, msgReqs, history, arrived, pushed, apptVars>>

\* sendMessage with a blank draft, no conversation selected or no profile:
\* the call returns at once.
SendMessageReturn ==
    /\ send.pc # "update"
    /\ (Trim(newMessage) = <<>> \/ selectedConversation = NoConversation \/ profile = NoUser)
    /\ send' = [pc |-> "returned", conv |-> selectedConversation, msg |-> 0]
    /\ issued' = [issued EXCEPT !.sendMessage = <<>>]
    /\ UNCHANGED <<newMessage, roomId, appointmentList, apptReq, profiles, videoVars, uiVars,
                   dbVars, now, resp, profile, conversations, convReq, selectedConversation,
                   messages, channels, effectDep, historyReqs, notifications, msgReqs,
                   history, arrived, pushed, apptVars>>

\* onChange of the message input: setNewMessage(e.target.value)
TypeMessage(text) ==
    /\ newMessage' = text
    /\ newMessage' # newMessage
    /\ UNCHANGED <<roomId, appointmentList, apptReq, issued, profiles, videoVars, uiVars,
                   dbVars, now, resp, profile, conversations, convReq, selectedConversation,
                   messages, channels, effectDep, historyReqs, notifications, msgReqs, send,
                   history, arrived, pushed, apptVars>>

\* Another profile's client inserts a message of its own (its sendMessage).
PeerInsertMessage(uid, cid) ==
    LET row == NewMessage(cid, uid, Typed)
        r == InsertMessageResult(uid, row)
        id == Len(chat_messages) + 1
    IN /\ uid # profile
       /\ Len(chat_messages) < MaxMessages
       /\ r = "ok"
       /\ chat_messages' = Append(chat_messages, row)
       /\ notifications' = Broadcast(row, id)
       /\ UNCHANGED <<viewVars, profiles, videoVars, uiVars,
                      chat_conversations, appointments, now, resp, profile, conversations,
                      convReq, selectedConversation, messages, channels, effectDep,
                      historyReqs, msgReqs, send, history, arrived, pushed, apptVars>>

\* The user leaves the chat tab: the component unmounts, the effect's cleanup
\* runs and the component's state is gone (answers to its requests are dropped);
\* a later visit mounts it anew.  A sendMessage call under way still completes.
LeaveView ==
    /\ channels' = EffectCleanup(channels, effectDep)
    /\ notifications' = SelectSeq(notifications, LAMBDA n : n.filter \in channels')
    /\ conversations' = <<>>
    /\ convReq' = TRUE
    /\ selectedConversation' = NoConversation
    /\ effectDep' = NoConversation
    /\ messages' = <<>>
    /\ historyReqs' = {}
    /\ msgReqs' = {}
    /\ history' = <<>>
    /\ arrived' = <<>>
    /\ pushed' = <<>>
    /\ newMessage' = <<>>
    /\ <<conversations, convReq, selectedConversation, effectDep, messages, channels, newMessage>>
          # <<conversations', convReq', selectedConversation', effectDep', messages', channels',
              newMessage'>>
    /\ UNCHANGED <<roomId, appointmentList, apptReq, issued, profiles, videoVars, uiVars,
                   dbVars, now, resp, profile, send, apptVars>>

Tick ==
    /\ now < MaxTime
    /\ now' = now + 1
    /\ UNCHANGED <<viewVars, profiles, videoVars, uiVars,
                   dbVars, resp, chatVars, apptVars>>

\* The chat client's message merge: history loads, pushes and sends interleaved.
NextChat ==
    \/ FetchConversationsDone
    \/ \E k \in Counselors : CreateConversation(k, TRUE)
    \/ \E c \in 1..Len(chat_conversations) : SelectConversation(c)
    \/ RunSubscriptionEffect
    \/ \E req \in historyReqs : FetchMessagesQuery(req)
    \/ \E req \in historyReqs : FetchMessagesResponse(req)
    \/ DeliverNotification
    \/ \E id \in msgReqs : FetchMessageResponse(id)
    \/ TypeMessage(Typed)
    \/ SendMessageInsert(TRUE)
    \/ \E delivered \in BOOLEAN : SendMessageUpdate(delivered)
    \/ \E uid \in Profiles, cid \in 1..Len(chat_conversations) : PeerInsertMessage(uid, cid)

SpecChat == Init /\ [][NextChat]_vars

\* sendMessage's two writes against the clock and the other participant's sends.
NextSend ==
    \/ FetchConversationsDone
    \/ \E k \in Counselors : CreateConversation(k, TRUE)
    \/ \E c \in 1..Len(chat_conversations) : SelectConversation(c)
    \/ TypeMessage(<<" ">> \o Typed \o <<" ">>)
    \/ \E delivered \in BOOLEAN : SendMessageInsert(delivered)
    \/ \E delivered \in BOOLEAN : SendMessageUpdate(delivered)
    \/ \E uid \in Profiles, cid \in 1..Len(chat_conversations) : PeerInsertMessage(uid, cid)
    \/ Tick

SpecSend == Init /\ [][NextSend]_vars

\* The subscription's life: selecting, the effect and its cleanup, the pushes
\* reaching the callback, leaving the view.  (The answers to the fetches touch
\* neither the selection nor the channels: they are in NextChat.)
NextSub ==
    \/ FetchConversationsDone
    \/ \E k \in Counselors : CreateConversation(k, TRUE)
    \/ \E c \in 1..Len(chat_conversations) : SelectConversation(c)
    \/ RunSubscriptionEffect
    \/ \E uid \in Profiles, cid \in 1..Len(chat_conversations) : PeerInsertMessage(uid, cid)
    \/ DeliverNotification
    \/ LeaveView

SpecSub == Init /\ [][NextSub]_vars

\* ------------------------------------------------------ video_call_sessions
VideoSessionSelectPolicy_StudentOnly(uid, row) ==
    /\ row.appointment_id \in 1..Len(appointments)
    /\ uid = appointments[row.appointment_id].student_id

\* "Users can view sessions for their appointments":
\* EXISTS (SELECT 1 FROM appointments WHERE id = appointment_id AND (...))
VideoSessionSelectPolicy(uid, row) ==
    /\ row.appointment_id \in 1..Len(appointments)
    /\ IsParticipant(uid, appointments[row.appointment_id])

\* Row-level security is enabled and the table has no INSERT policy: an insert
\* by anyone the policies apply to is refused.
VideoSessionInsertPolicy(uid, row) == FALSE

\* appointment_id UUID REFERENCES appointments(id): NULL or an existing row
AppointmentIdReferences(row) ==
    row.appointment_id = NoAppointment \/ row.appointment_id \in 1..Len(appointments)

RoomIdUnique_Unchecked(rows, row) == TRUE

\* room_id TEXT UNIQUE NOT NULL
RoomIdUnique(rows, row) == \A i \in 1..Len(rows) : rows[i].room_id # row.room_id

\* The outcome of an insert: the policy (for everyone but the owner), then the
\* foreign key, then the unique index.
InsertVideoSessionResult(uid, row) ==
    IF uid # Owner /\ ~VideoSessionInsertPolicy(uid, row) THEN "PolicyDenied"
    ELSE IF ~AppointmentIdReferences(row) THEN "ForeignKeyViolation"
    ELSE IF ~RoomIdUnique(video_call_sessions, row) THEN "UniqueViolation"
    ELSE "ok"

\* `sathi-room-${Date.now()}`
NewRoomId(t) == "sathi-room-" \o ToString(t)

\* `https://meet.jit.si/${newRoomId}`
MeetingUrl(room) == "https://meet.jit.si/" \o room

\* The room ids a request may carry: the ones createVideoCall can generate.
RoomIds == {NewRoomId(t) : t \in 0..MaxTime}

\* video_call_sessions: participants DEFAULT '[]'
NewVideoSession(appointmentId, room, participants) ==
    [appointment_id |-> appointmentId, room_id |-> room, participants |-> participants,
     call_started_at |-> now]

\* An insert into video_call_sessions by any caller, the owner included.
ApiInsertVideoSession(uid, appointmentId, room, participants) ==
    LET row == NewVideoSession(appointmentId, room, participants)
        r == InsertVideoSessionResult(uid, row)
    IN /\ Len(video_call_sessions) < MaxVideoSessions
       /\ video_call_sessions' = IF r = "ok" THEN Append(video_call_sessions, row)
                                  ELSE video_call_sessions
       /\ resp' = Request("video_call_sessions", "insert", uid,
                          Len(video_call_sessions) + 1, NoRow, row, r)
       /\ UNCHANGED <<viewVars, dbVars, now, chatVars, apptVars, profiles, isCreating, createCall,
                      opened, uiVars>>

\* A select of one row by a caller the policies apply to.
ApiSelectVideoSession(uid, id) ==
    LET row == video_call_sessions[id]
    IN /\ resp' = Request("video_call_sessions", "select", uid, id, row, NoRow,
                          IF VideoSessionSelectPolicy(uid, row) THEN "ok" ELSE "PolicyDenied")
       /\ UNCHANGED <<viewVars, dbVars, now, chatVars, apptVars, profiles, videoVars, uiVars>>

\* The video session table, with the appointment requests its policy depends on.
NextVideo ==
    \/ \E uid \in Callers, st \in Profiles :
          ApiInsertAppointment(uid, st, "k1", "video", 1, 2)
    \/ \E uid \in Callers \cup {Owner}, a \in 0..MaxAppointments + 1, room \in RoomIds :
          ApiInsertVideoSession(uid, a, room, <<>>)
    \/ \E uid \in Callers, id \in 1..Len(video_call_sessions) :
          ApiSelectVideoSession(uid, id)

SpecVideo == Init /\ [][NextVideo]_vars

\* ---- VideoCallInterface
\* createVideoCall up to its await: setIsCreating(true), the room id from the
\* clock, the insert as the profile; the request reaches the store or fails on
\* the way.  (The button is disabled while isCreating.)
CreateVideoCall(delivered) ==
    LET newRoomId == NewRoomId(now)
        row == NewVideoSession(NoAppointment, newRoomId, <<profile>>)
        r == IF delivered THEN InsertVideoSessionResult(profile, row) ELSE "NetworkError"
    IN /\ ~isCreating
       /\ Len(video_call_sessions) < MaxVideoSessions
       /\ isCreating' = TRUE
       /\ video_call_sessions' = IF r = "ok" THEN Append(video_call_sessions, row)
                                  ELSE video_call_sessions
       /\ createCall' = [pc |-> "insert", room |-> newRoomId, result |-> r]
       /\ issued' = [issued EXCEPT !.createVideoCall =
                                        <<Write("video_call_sessions.insert", r)>>]
       /\ UNCHANGED <<newMessage, roomId, appointmentList, apptReq, dbVars, now, resp, chatVars, apptVars, profiles, opened, uiVars>>

CreateVideoCallDone_OpensFirst ==
    LET ok == createCall.result = "ok"
    IN /\ createCall.pc = "insert"
       /\ opened' = opened \cup {MeetingUrl(createCall.room)}
       /\ toast' = IF ok THEN SuccessToast("Video call room created successfully")
                    ELSE ErrorToast("Failed to create video call")
       /\ logged' = IF ok THEN logged ELSE logged \cup {"Error creating video call:"}
       /\ isCreating' = FALSE
       /\ createCall' = [createCall EXCEPT !.pc = "done"]
       /\ UNCHANGED <<viewVars, dbVars, now, resp, chatVars, apptVars, profiles, video_call_sessions>>

\* createVideoCall resumes with the insert's answer: an error is thrown to the
\* catch block (logged, error toast); otherwise the meeting URL is opened and the
\* success toast shown; finally setIsCreating(false).
CreateVideoCallDone ==
    LET ok == createCall.result = "ok"
    IN /\ createCall.pc = "insert"
       /\ opened' = IF ok THEN opened \cup {MeetingUrl(createCall.room)} ELSE opened
       /\ toast' = IF ok THEN SuccessToast("Video call room created successfully")
                    ELSE ErrorToast("Failed to create video call")
       /\ logged' = IF ok THEN logged ELSE logged \cup {"Error creating video call:"}
       /\ isCreating' = FALSE
       /\ createCall' = [createCall EXCEPT !.pc = "done"]
       /\ UNCHANGED <<viewVars, dbVars, now, resp, chatVars, apptVars, profiles, video_call_sessions>>

\* The text as one string
RECURSIVE Str(_)
Str(text) == IF text = <<>> THEN "" ELSE Head(text) \o Str(Tail(text))

\* What the user types into the room id input: nothing, blanks, an id after a
\* blank.
RoomInputs == {<<>>, <<" ">>, <<" ", "r", "1">>}

\* onChange of the room id input: setRoomId(e.target.value)
SetRoomId(text) ==
    /\ roomId' = text
    /\ roomId' # roomId
    /\ UNCHANGED <<newMessage, appointmentList, apptReq, issued, dbVars, now, resp, chatVars,
                   apptVars, profiles, videoVars, uiVars>>

\* joinVideoCall testing the room id as typed, blanks included
JoinVideoCall_Untrimmed ==
    LET meetingUrl == MeetingUrl(Str(roomId))
    IN /\ toast' = IF roomId = <<>> THEN ErrorToast("Please enter a room ID") ELSE toast
       /\ opened' = IF roomId = <<>> THEN opened ELSE opened \cup {meetingUrl}
       /\ UNCHANGED <<viewVars, dbVars, now, resp, chatVars, apptVars, profiles,
                      video_call_sessions, isCreating, createCall, logged>>

\* joinVideoCall: a blank room id shows the error toast; any other opens the
\* meeting of the room id as typed.
JoinVideoCall ==
    LET meetingUrl == MeetingUrl(Str(roomId))
    IN /\ toast' = IF Trim(roomId) = <<>> THEN ErrorToast("Please enter a room ID") ELSE toast
       /\ opened' = IF Trim(roomId) = <<>> THEN opened ELSE opened \cup {meetingUrl}
       /\ UNCHANGED <<viewVars, dbVars, now, resp, chatVars, apptVars, profiles,
                      video_call_sessions, isCreating, createCall, logged>>

\* The Video Calls tab of one client, against the clock and the sessions the
\* owner records.
NextCall ==
    \/ \E delivered \in BOOLEAN : CreateVideoCall(delivered)
    \/ CreateVideoCallDone
    \/ \E room \in RoomIds : ApiInsertVideoSession(Owner, NoAppointment, room, <<>>)
    \/ Tick

SpecCall == Init /\ [][NextCall]_vars

\* One way of filling in the required fields of the create dialog.
Filled == [counselor_id |-> "k1", scheduled_start |-> 1, scheduled_end |-> 2]

\* The lists of any profile's client, over rows that any profile has stored as
\* their student.
\* Only a student is shown the controls that create.
NextList ==
    \/ \E st \in Profiles, co \in {"k1", "a1"} : ApiInsertConversation(st, st, co)
    \/ \E st \in Profiles, co \in {"k1", "a1"} :
          ApiInsertAppointment(st, st, co, "video", 1, 2)
    \/ FetchConversationsDone
    \/ FetchAppointmentsDone
    \/ \E k \in Counselors :
          profile \in Profiles /\ Role[profile] = "student" /\ CreateConversation(k, TRUE)
    \/ \E field \in {"counselor_id", "scheduled_start", "scheduled_end"} :
          profile \in Profiles /\ Role[profile] = "student"
             /\ SetAppointmentForm(field, Filled[field])
    \/ profile \in Profiles /\ Role[profile] = "student" /\ CreateAppointment(TRUE)
    \/ LeaveView

SpecList == InitAny /\ [][NextList]_vars

\* Every handler that writes, with requests that reach the store and requests
\* that do not.
NextWrite ==
    \/ \E k \in Counselors, delivered \in BOOLEAN : CreateConversation(k, delivered)
    \/ TypeMessage(Typed)
    \/ \E delivered \in BOOLEAN : SendMessageInsert(delivered)
    \/ \E delivered \in BOOLEAN : SendMessageUpdate(delivered)
    \/ \E field \in {"counselor_id", "scheduled_start", "scheduled_end"} :
          SetAppointmentForm(field, Filled[field])
    \/ \E delivered \in BOOLEAN : CreateAppointment(delivered)
    \/ \E delivered \in BOOLEAN : CreateVideoCall(delivered)
    \/ CreateVideoCallDone

SpecWrite == Init /\ [][NextWrite]_vars

\* The handlers' tests of their input, for the student and with no profile loaded.
NextValid ==
    \/ \E k \in Counselors : CreateConversation(k, TRUE)
    \/ \E text \in Drafts : TypeMessage(text)
    \/ SendMessageReturn
    \/ SendMessageInsert(TRUE)
    \/ SendMessageUpdate(TRUE)
    \/ \E field \in {"counselor_id", "scheduled_start", "scheduled_end"} :
          SetAppointmentForm(field, Filled[field])
    \/ CreateAppointmentReturn
    \/ CreateAppointment(TRUE)
    \/ FetchAppointmentsDone
    \/ \E text \in RoomInputs : SetRoomId(text)
    \/ JoinVideoCall

SpecValid == (InitAs("s1") \/ InitAs(NoUser)) /\ [][NextValid]_vars

\* ----------------------------------------------------------------- profiles
\* CREATE TYPE user_role AS ENUM ('student', 'counselor', 'admin')
UserRoles == {"student", "counselor", "admin"}

\* The accounts (auth.users): the three with a profiles row, and one whose row
\* has not been written (an account older than the on_auth_user_created trigger).
AuthUsers == Profiles \cup {"u1"}

\* "Users can view all profiles": USING (TRUE)
ProfileSelectPolicy(uid, row) == TRUE

\* "Users can insert own profile": WITH CHECK (auth.uid() = id)
ProfileInsertPolicy(uid, row) == uid = row.id

ProfileUpdatePolicy_Authenticated(uid, old, new) == uid # NoUser

ProfileUpdatePolicy_ExistingRowOnly(uid, old, new) == uid = old.id

\* "Users can update own profile": USING (auth.uid() = id), which is also the
\* check on the row as updated
ProfileUpdatePolicy(uid, old, new) == uid = old.id /\ uid = new.id

\* id UUID PRIMARY KEY
InsertProfileResult(uid, row) ==
    IF ~ProfileInsertPolicy(uid, row) THEN "PolicyDenied"
    ELSE IF row.id \in DOMAIN profiles THEN "UniqueViolation"
    ELSE "ok"

\* (An accepted update leaves id as it is, so the primary key cannot be repeated.)
UpdateProfileResult(uid, old, new) ==
    IF ProfileUpdatePolicy(uid, old, new) THEN "ok" ELSE "PolicyDenied"

\* role user_role DEFAULT 'student', is_active BOOLEAN DEFAULT TRUE
NewProfile(id, role) == [id |-> id, role |-> role, is_active |-> TRUE]

ApiInsertProfile(uid, id, role) ==
    LET row == NewProfile(id, role)
        r == InsertProfileResult(uid, row)
    IN /\ profiles' = IF r = "ok"
                       THEN [p \in DOMAIN profiles \cup {id} |->
                               IF p = id THEN row ELSE profiles[p]]
                       ELSE profiles
       /\ resp' = Request("profiles", "insert", uid, id, NoRow, row, r)
       /\ UNCHANGED <<viewVars, dbVars, now, chatVars, apptVars, videoVars, uiVars>>

\* The columns an UPDATE may set: no policy or trigger restricts them.
ProfilePatches(old) ==
    {[old EXCEPT !.role = r] : r \in UserRoles}
        \cup {[old EXCEPT !.id = u] : u \in AuthUsers}

ApiUpdateProfile(uid, id, new) ==
    LET old == profiles[id]
        r == UpdateProfileResult(uid, old, new)
    IN /\ new # old
       /\ profiles' = IF r = "ok" THEN [profiles EXCEPT ![id] = new] ELSE profiles
       /\ resp' = Request("profiles", "update", uid, id, old, new, r)
       /\ UNCHANGED <<viewVars, dbVars, now, chatVars, apptVars, videoVars, uiVars>>

ApiSelectProfile(uid, id) ==
    LET row == profiles[id]
    IN /\ resp' = Request("profiles", "select", uid, id, row, NoRow,
                          IF ProfileSelectPolicy(uid, row) THEN "ok" ELSE "PolicyDenied")
       /\ UNCHANGED <<viewVars, dbVars, now, chatVars, apptVars, profiles, videoVars, uiVars>>

\* The profiles table: every request any caller can make of it.
NextProf ==
    \/ \E uid \in AuthUsers \cup {NoUser}, id \in AuthUsers, role \in UserRoles :
          ApiInsertProfile(uid, id, role)
    \/ \E uid \in AuthUsers \cup {NoUser}, id \in DOMAIN profiles :
          \E new \in ProfilePatches(profiles[id]) : ApiUpdateProfile(uid, id, new)
    \/ \E uid \in AuthUsers \cup {NoUser}, id \in DOMAIN profiles :
          ApiSelectProfile(uid, id)

SpecProf == Init /\ [][NextProf]_vars

\* ---------------------------------------- a message after it has been inserted
MessageUpdatePolicy_Sender(uid, old, new) == uid = old.sender_id

\* Row-level security is enabled on chat_messages and the table has no UPDATE
\* policy and no DELETE policy: no row is open to either statement.
MessageUpdatePolicy(uid, old, new) == FALSE

MessageDeletePolicy(uid, old) == FALSE

\* The columns an UPDATE may name.
MessagePatches(old) ==
    {[old EXCEPT !.content = Edited]}
        \cup {[old EXCEPT !.sender_id = p] : p \in Profiles}
        \cup {[old EXCEPT !.conversation_id = c] : c \in 1..Len(chat_conversations)}
        \cup {[old EXCEPT !.status = st] : st \in MessageStatuses}

ApiUpdateMessage(uid, id, new) ==
    LET old == chat_messages[id]
        r == IF MessageUpdatePolicy(uid, old, new) THEN "ok" ELSE "PolicyDenied"
    IN /\ new # old
       /\ chat_messages' = IF r = "ok" THEN [chat_messages EXCEPT ![id] = new]
                            ELSE chat_messages
       /\ resp' = Request("chat_messages", "update", uid, id, old, new, r)
       /\ UNCHANGED <<viewVars, chat_conversations, appointments, now, chatVars, apptVars, profiles,
                      videoVars, uiVars>>

\* A deleted row leaves its id behind: the place holds NoRow.
ApiDeleteMessage(uid, id) ==
    LET old == chat_messages[id]
        r == IF MessageDeletePolicy(uid, old) THEN "ok" ELSE "PolicyDenied"
    IN /\ chat_messages' = IF r = "ok" THEN [chat_messages EXCEPT ![id] = NoRow]
                            ELSE chat_messages
       /\ resp' = Request("chat_messages", "delete", uid, id, old, NoRow, r)
       /\ UNCHANGED <<viewVars, chat_conversations, appointments, now, chatVars, apptVars, profiles,
                      videoVars, uiVars>>

\* The life of a message row: inserts naming any status, then every update and
\* delete any caller can ask for.
NextEdit ==
    \/ \E st \in Profiles : ApiInsertConversation(st, st, "k1")
    \/ \E uid \in Callers, cid \in 1..Len(chat_conversations), sender \in Profiles,
          status \in MessageStatuses :
          /\ Len(chat_messages) < MaxApiMessages
          /\ ApiInsertMessage(uid, [NewMessage(cid, sender, Typed) EXCEPT !.status = status])
    \/ \E uid \in Callers, id \in 1..Len(chat_messages) :
          \E new \in MessagePatches(chat_messages[id]) : ApiUpdateMessage(uid, id, new)
    \/ \E uid \in Callers, id \in 1..Len(chat_messages) : ApiDeleteMessage(uid, id)

SpecEdit == Init /\ [][NextEdit]_vars

\* ------------------------------------- deleting a conversation or an appointment
ConversationDeletePolicy_Participants(uid, old) == IsParticipant(uid, old)

\* Row-level security is enabled on chat_conversations and on appointments and
\* neither table has a DELETE policy: no row is open to the statement.
ConversationDeletePolicy(uid, old) == FALSE

AppointmentDeletePolicy(uid, old) == FALSE

\* A deleted row leaves its id behind: the place holds NoRow.
ApiDeleteConversation(uid, id) ==
    LET old == chat_conversations[id]
        r == IF ConversationDeletePolicy(uid, old) THEN "ok" ELSE "PolicyDenied"
    IN /\ chat_conversations' = IF r = "ok" THEN [chat_conversations EXCEPT ![id] = NoRow]
                                 ELSE chat_conversations
       /\ resp' = Request("chat_conversations", "delete", uid, id, old, NoRow, r)
       /\ UNCHANGED <<viewVars, chat_messages, appointments, now, chatVars, apptVars, profiles,
                      videoVars, uiVars>>

ApiDeleteAppointment(uid, id) ==
    LET old == appointments[id]
        r == IF AppointmentDeletePolicy(uid, old) THEN "ok" ELSE "PolicyDenied"
    IN /\ appointments' = IF r = "ok" THEN [appointments EXCEPT ![id] = NoRow]
                           ELSE appointments
       /\ resp' = Request("appointments", "delete", uid, id, old, NoRow, r)
       /\ UNCHANGED <<viewVars, chat_conversations, chat_messages, now, chatVars, apptVars, profiles,
                      videoVars, uiVars>>

\* The patches that move a conversation along its lifecycle.
ConversationStatusPatches(old) == {[old EXCEPT !.status = st] : st \in ConversationStatuses}

\* The life of a conversation and of an appointment of s1 and k1: created,
\* moved from status to status, and asked to be deleted by every caller.
NextLife ==
    \/ \E uid \in Callers : ApiInsertConversation(uid, "s1", "k1")
    \/ \E uid \in Callers, id \in 1..Len(chat_conversations) :
          \E new \in ConversationStatusPatches(chat_conversations[id]) :
             ApiUpdateConversation(uid, id, new)
    \/ \E uid \in Callers, id \in 1..Len(chat_conversations) : ApiDeleteConversation(uid, id)
    \/ \E uid \in Callers : ApiInsertAppointment(uid, "s1", "k1", "video", 1, 2)
    \/ \E uid \in Callers, id \in 1..Len(appointments) :
          \E new \in AppointmentStatusPatches(appointments[id]) :
             ApiUpdateAppointment(uid, id, new)
    \/ \E uid \in Callers, id \in 1..Len(appointments) : ApiDeleteAppointment(uid, id)

SpecLife == Init /\ [][NextLife]_vars

\* -------------------------------------------- ChatInterface: requests that fail
\* fetchConversations' request fails (the store or the network refuses it): the
\* catch block logs the error and shows the error toast; the list is left as it is.
FetchConversationsError ==
    /\ convReq
    /\ convReq' = FALSE
    /\ logged' = logged \cup {"Error fetching conversations:"}
    /\ toast' = ErrorToast("Failed to load conversations")
    /\ UNCHANGED <<viewVars, dbVars, now, resp, profile, conversations, selectedConversation, messages,
                   channels, effectDep, historyReqs, notifications, msgReqs, send, history,
                   arrived, pushed, apptVars, profiles, videoVars>>

\* fetchMessages' request fails: the catch block logs the error; setMessages is
\* not reached and nothing is shown.
FetchMessagesError(req) ==
    /\ req \in historyReqs
    /\ historyReqs' = historyReqs \ {req}
    /\ logged' = logged \cup {"Error fetching messages:"}
    /\ UNCHANGED <<viewVars, dbVars, now, resp, profile, conversations, convReq, selectedConversation,
                   messages, channels, effectDep, notifications, msgReqs, send, history,
                   arrived, pushed, apptVars, profiles, videoVars, toast>>

\* fetchMessageWithSender's request fails: the catch block logs the error; the
\* pushed message is not appended and nothing is shown.
FetchMessageError(id) ==
    /\ id \in msgReqs
    /\ msgReqs' = msgReqs \ {id}
    /\ logged' = logged \cup {"Error fetching message:"}
    /\ UNCHANGED <<viewVars, dbVars, now, resp, profile, conversations, convReq, selectedConversation,
                   messages, channels, effectDep, historyReqs, notifications, send, history,
                   arrived, pushed, apptVars, profiles, videoVars, toast>>

\* The chat view's loads and pushes, each request answered or failing.
NextErr ==
    \/ FetchConversationsDone
    \/ FetchConversationsError
    \/ \E k \in Counselors : CreateConversation(k, TRUE)
    \/ \E c \in 1..Len(chat_conversations) : SelectConversation(c)
    \/ RunSubscriptionEffect
    \/ \E req \in historyReqs : FetchMessagesQuery(req)
    \/ \E req \in historyReqs : FetchMessagesResponse(req)
    \/ \E req \in historyReqs : FetchMessagesError(req)
    \/ \E uid \in Profiles, cid \in 1..Len(chat_conversations) : PeerInsertMessage(uid, cid)
    \/ DeliverNotification
    \/ \E id \in msgReqs : FetchMessageResponse(id)
    \/ \E id \in msgReqs : FetchMessageError(id)

SpecErr == Init /\ [][NextErr]_vars

\* ================================================================ claims
\* What the documentation calls a participant of a conversation or appointment row.
Party(uid, row) == uid \in {row.student_id, row.counselor_id}

\* C1: an insert into chat_messages is accepted if and only if the caller is the
\* row's sender_id and is the student or the counselor of the conversation the row
\* names; any other insert is rejected with PolicyDenied and stores nothing.
C1_MessageInsertIffSenderAndParticipant ==
    (resp.table = "chat_messages" /\ resp.op = "insert") =>
        LET cid == resp.new.conversation_id
            entitled == /\ resp.caller = resp.new.sender_id
                        /\ cid \in 1..Len(chat_conversations)
                        /\ Party(resp.caller, chat_conversations[cid])
        IN /\ (resp.result = "ok") <=> entitled
           /\ resp.result = "ok" =>
                 Len(chat_messages) = resp.id /\ chat_messages[resp.id] = resp.new
           /\ resp.result # "ok" =>
                 resp.result = "PolicyDenied" /\ Len(chat_messages) = resp.id - 1

\* C1 witnesses: a counselor's own message is accepted into the conversation.
C1_Witness ==
    /\ resp.table = "chat_messages" /\ resp.op = "insert" /\ resp.result = "ok"
    /\ resp.caller = "k1"
    /\ chat_messages # <<>>

\* C2: a message of conversation C is readable by exactly the profiles that are
\* C.student_id or C.counselor_id; every other read is PolicyDenied.
C2_MessageReadOnlyByParticipants ==
    (resp.table = "chat_messages" /\ resp.op = "select") =>
        LET conv == chat_conversations[resp.old.conversation_id]
        IN /\ (resp.result = "ok") <=> Party(resp.caller, conv)
           /\ resp.result # "ok" => resp.result = "PolicyDenied"

\* C2 witness: the student created the conversation with k1 and sent a message;
\* the third profile's read of it is denied.
C2_Witness ==
    /\ Len(chat_conversations) >= 1 /\ Len(chat_messages) >= 1
    /\ chat_conversations[1].student_id = "s1" /\ chat_conversations[1].counselor_id = "k1"
    /\ chat_messages[1].sender_id = "s1" /\ chat_messages[1].conversation_id = 1
    /\ resp.table = "chat_messages" /\ resp.op = "select" /\ resp.id = 1
    /\ resp.caller = "a1" /\ resp.result = "PolicyDenied"

\* C3 as stated: read(C) and update(C) are permitted if and only if the caller is
\* C.student_id or C.counselor_id.
C3_AsStated ==
    (resp.table = "chat_conversations" /\ resp.op \in {"select", "update"}) =>
        ((resp.result = "ok") <=> Party(resp.caller, resp.old))

\* C3 amended: read(C) is permitted if and only if the caller is C.student_id or
\* C.counselor_id; update(C) is accepted if and only if the caller is a participant
\* of C and is still one of the row as updated.
C3_ReadUpdateByParticipants ==
    /\ (resp.table = "chat_conversations" /\ resp.op = "select") =>
          /\ (resp.result = "ok") <=> Party(resp.caller, resp.old)
          /\ resp.result # "ok" => resp.result = "PolicyDenied"
    /\ (resp.table = "chat_conversations" /\ resp.op = "update") =>
          /\ (resp.result = "ok") <=>
                (Party(resp.caller, resp.old) /\ Party(resp.caller, resp.new))
          /\ resp.result = "ok" => chat_conversations[resp.id] = resp.new
          /\ resp.result # "ok" => chat_conversations[resp.id] = resp.old

\* C3 witness: the counselor's update of the conversation is accepted.
C3_Witness ==
    /\ resp.table = "chat_conversations" /\ resp.op = "update"
    /\ resp.caller = resp.old.counselor_id /\ resp.caller # resp.old.student_id
    /\ resp.result = "ok"

\* C6 as stated: no stored appointment has scheduled_start >= scheduled_end.
C6_StartBeforeEnd ==
    \A i \in 1..Len(appointments) :
        appointments[i].scheduled_start < appointments[i].scheduled_end

\* C7: canJoinCall is true if and only if now >= scheduled_start - 15 minutes and
\* now <= scheduled_end and the status is not cancelled and the type is video.
C7_JoinWindow ==
    canJoin.rendered =>
        LET a == appointments[1]
        IN canJoin.value <=>
             /\ canJoin.at >= a.scheduled_start - 900000
             /\ canJoin.at <= a.scheduled_end
             /\ a.status # "cancelled"
             /\ a.appointment_type = "video"

\* C7 witness: at exactly 15 minutes before the start the scheduled video
\* appointment is joinable.
C7_Witness ==
    /\ canJoin.rendered /\ canJoin.value
    /\ canJoin.at = appointments[1].scheduled_start - 900000
    /\ appointments[1].status = "scheduled"

\* C10 as stated: read(A) and update(A) are permitted if and only if the caller is
\* A.student_id or A.counselor_id, and an insert if and only if the caller is
\* A.student_id.
C10_AsStated ==
    /\ (resp.table = "appointments" /\ resp.op \in {"select", "update"}) =>
          ((resp.result = "ok") <=> Party(resp.caller, resp.old))
    /\ (resp.table = "appointments" /\ resp.op = "insert") =>
          ((resp.result = "ok") <=> resp.caller = resp.new.student_id)

\* C10 amended: read(A) is permitted if and only if the caller is A.student_id or
\* A.counselor_id; update(A) is accepted if and only if the caller is a participant
\* of A and is still one of the row as updated; an insert of A is accepted if and
\* only if the caller is A.student_id.
C10_AppointmentAccess ==
    /\ (resp.table = "appointments" /\ resp.op = "select") =>
          ((resp.result = "ok") <=> Party(resp.caller, resp.old))
    /\ (resp.table = "appointments" /\ resp.op = "update") =>
          /\ (resp.result = "ok") <=>
                (Party(resp.caller, resp.old) /\ Party(resp.caller, resp.new))
          /\ resp.result = "ok" => appointments[resp.id] = resp.new
          /\ resp.result # "ok" => appointments[resp.id] = resp.old
    /\ (resp.table = "appointments" /\ resp.op = "insert") =>
          /\ (resp.result = "ok") <=> resp.caller = resp.new.student_id
          /\ resp.result = "ok" => appointments[resp.id] = resp.new
          /\ resp.result # "ok" => Len(appointments) = resp.id - 1

\* C10 witness: the counselor's insert of an appointment for the student is denied.
C10_Witness ==
    /\ resp.table = "appointments" /\ resp.op = "insert"
    /\ resp.caller = resp.new.counselor_id /\ resp.caller # resp.new.student_id
    /\ resp.result = "PolicyDenied"

\* C4 as stated: each message id occurs at most once in the client's message list.
C4_NoDuplicateMessage ==
    \A i, j \in 1..Len(messages) : i # j => messages[i] # messages[j]

\* C5 as stated: when sendMessage completes after a successful insert, the
\* conversation's last_message_at equals the inserted message's created_at.
C5_LastMessageAtIsInsertTime ==
    [][(send.pc = "update" /\ send'.pc = "done") =>
          chat_conversations'[send.conv].last_message_at = chat_messages'[send.msg].created_at]_vars

\* C8 as stated: in every reachable state at most one subscription is active and
\* its filter is the currently selected conversation id.
C8_AsStated ==
    /\ Cardinality(channels) <= 1
    /\ \A c \in channels : c = selectedConversation

\* C8 amended: at most one subscription is active in every reachable state (the
\* previous one is removed before the next is opened, and none is left when the
\* view is left); once the effect has run for the current selection, its filter
\* is the selected conversation id.
C8_OneSubscription ==
    /\ Cardinality(channels) <= 1
    /\ \A c \in channels : c = effectDep
    /\ effectDep = selectedConversation =>
          channels = IF selectedConversation = NoConversation THEN {}
                     ELSE {selectedConversation}

\* C8 witness: a push of conversation 1 was received, and after the switch the
\* only subscription is the one of conversation 2.
C8_Witness ==
    /\ arrived # <<>> /\ chat_messages[arrived[1]].conversation_id = 1
    /\ selectedConversation = 2 /\ effectDep = 2
    /\ channels = {2}

\* Where an id stands in the order the notifications arrived.
ArrivedIndex(id) == CHOOSE i \in 1..Len(arrived) : arrived[i] = id

\* C9 as stated: the list is the loaded history followed by the pushed messages,
\* and these stand in the order in which their notifications arrived.
C9_PushedInArrivalOrder ==
    /\ messages = history \o pushed
    /\ \A i, j \in 1..Len(pushed) :
          i < j => ArrivedIndex(pushed[i]) < ArrivedIndex(pushed[j])

\* C11 as stated: an insert of a conversation is accepted if and only if the caller
\* is the row's student_id, and every stored conversation's student_id is a profile
\* of role student and its counselor_id a profile of role counselor.
C11_StudentCounselorPair ==
    /\ (resp.table = "chat_conversations" /\ resp.op = "insert") =>
          ((resp.result = "ok") <=> resp.caller = resp.new.student_id)
    /\ \A c \in 1..Len(chat_conversations) :
          /\ Role[chat_conversations[c].student_id] = "student"
          /\ Role[chat_conversations[c].counselor_id] = "counselor"

\* C12: a video session row is readable by a caller if and only if the caller is
\* the student_id or counselor_id of the appointment its appointment_id names; a
\* session with no linked appointment is readable by no caller.
C12_SessionReadByAppointmentParty ==
    (resp.table = "video_call_sessions" /\ resp.op = "select") =>
        LET a == resp.old.appointment_id
        IN /\ (resp.result = "ok") <=>
                 (a # NoAppointment /\ Party(resp.caller, appointments[a]))
           /\ resp.result # "ok" => resp.result = "PolicyDenied"

\* C12 witnesses: the counselor of the linked appointment reads the session.
C12_Witness ==
    /\ resp.table = "video_call_sessions" /\ resp.op = "select" /\ resp.result = "ok"
    /\ resp.old.appointment_id # NoAppointment
    /\ resp.caller = appointments[resp.old.appointment_id].counselor_id
    /\ resp.caller # appointments[resp.old.appointment_id].student_id

\* C13 as stated: when createVideoCall has completed, a video session row with the
\* generated room_id, the caller among its participants and call_started_at exists
\* in the store, and the meeting URL of that room_id has been opened.
C13_CreateVideoCallStoresAndOpens ==
    createCall.pc = "done" =>
        /\ \E i \in 1..Len(video_call_sessions) :
              LET row == video_call_sessions[i]
              IN /\ row.room_id = createCall.room
                 /\ \E k \in 1..Len(row.participants) : row.participants[k] = profile
                 /\ row.call_started_at \in 0..MaxTime
        /\ MeetingUrl(createCall.room) \in opened

\* C14: no two rows of video_call_sessions share a room_id, and an insert whose
\* room_id is already in the table is rejected and adds no row.
C14_RoomIdUnique ==
    /\ \A i, j \in 1..Len(video_call_sessions) :
          i # j => video_call_sessions[i].room_id # video_call_sessions[j].room_id
    /\ (resp.table = "video_call_sessions" /\ resp.op = "insert") =>
          /\ (\E i \in 1..resp.id - 1 : video_call_sessions[i].room_id = resp.new.room_id)
                => resp.result # "ok"
          /\ resp.result # "ok" => Len(video_call_sessions) = resp.id - 1
          /\ resp.result = "ok" => video_call_sessions[resp.id] = resp.new

\* C14 witness: the only thing against the insert is the room_id it repeats.
C14_Witness ==
    /\ resp.table = "video_call_sessions" /\ resp.op = "insert"
    /\ resp.result = "UniqueViolation"
    /\ \E i \in 1..Len(video_call_sessions) :
          video_call_sessions[i].room_id = resp.new.room_id

\* C15: every authenticated identity may read every profile row; an insert or an
\* update of a profile row is accepted only when the caller is that row's id.
C15_ProfileAccess ==
    /\ (resp.table = "profiles" /\ resp.op = "select" /\ resp.caller \in AuthUsers) =>
          resp.result = "ok"
    /\ (resp.table = "profiles" /\ resp.op = "insert") =>
          /\ resp.result = "ok" => resp.caller = resp.new.id /\ profiles[resp.id] = resp.new
          /\ resp.caller # resp.new.id => resp.result = "PolicyDenied"
    /\ (resp.table = "profiles" /\ resp.op = "update") =>
          /\ resp.result = "ok" => resp.caller = resp.old.id /\ profiles[resp.id] = resp.new
          /\ resp.result # "ok" => profiles[resp.id] = resp.old

\* C15 witness: a profile's update of its own row is accepted.
C15_Witness ==
    /\ resp.table = "profiles" /\ resp.op = "update" /\ resp.result = "ok"
    /\ resp.caller = resp.old.id /\ resp.new.role # resp.old.role

\* C16: messages are append-only: in every step each stored message row is still
\* there afterwards, with the content, sender_id and conversation_id it had.
C16_MessagesAppendOnly ==
    [][\A i \in 1..Len(chat_messages) :
          /\ i <= Len(chat_messages') /\ chat_messages'[i] # NoRow
          /\ chat_messages'[i].content = chat_messages[i].content
          /\ chat_messages'[i].sender_id = chat_messages[i].sender_id
          /\ chat_messages'[i].conversation_id = chat_messages[i].conversation_id]_vars

\* C16 witness: the sender's own edit of the message is refused and the content
\* is still as typed.
C16_Witness ==
    /\ resp.table = "chat_messages" /\ resp.op = "update"
    /\ resp.caller = resp.old.sender_id /\ resp.new.content = Edited
    /\ resp.result = "PolicyDenied" /\ chat_messages[resp.id].content = Typed

\* How far along sent -> delivered -> read a status is.
StatusRank == [st \in MessageStatuses |->
                 IF st = "sent" THEN 1 ELSE IF st = "delivered" THEN 2 ELSE 3]

\* C17 as stated: every message is created in status sent, and in every step the
\* status of a stored message stays in {sent, delivered, read} and does not move
\* backwards along sent -> delivered -> read.
C17_StatusForwardFromSent ==
    [][/\ \A i \in 1..Len(chat_messages) :
             /\ chat_messages'[i].status \in MessageStatuses
             /\ StatusRank[chat_messages'[i].status] >= StatusRank[chat_messages[i].status]
       /\ \A i \in (Len(chat_messages) + 1)..Len(chat_messages') :
             chat_messages'[i].status = "sent"]_vars

\* C18 as stated: completed and cancelled are terminal: in every step an
\* appointment whose status is completed or cancelled keeps that status.
C18_TerminalStatuses ==
    [][\A i \in 1..Len(appointments) :
          appointments[i].status \in {"completed", "cancelled"} =>
              appointments'[i].status = appointments[i].status]_vars

\* C19: no conversation and no appointment is ever deleted: in every step each
\* stored row of the two tables is still there afterwards (whatever its status).
C19_NoDeletion ==
    [][/\ \A i \in 1..Len(chat_conversations) :
             i <= Len(chat_conversations') /\ chat_conversations'[i] # NoRow
       /\ \A i \in 1..Len(appointments) :
             i <= Len(appointments') /\ appointments'[i] # NoRow]_vars

\* C19 witness: the student has archived the conversation, and the student's
\* request to delete it is refused.
C19_Witness ==
    /\ resp.table = "chat_conversations" /\ resp.op = "delete"
    /\ resp.caller = resp.old.student_id /\ resp.old.status = "archived"
    /\ resp.result = "PolicyDenied" /\ chat_conversations[resp.id] = resp.old

\* C20 as stated: every failure of a storage operation is caught where the call
\* was made and shown to the user: each step in which a failure is caught (and
\* logged) puts an error toast on display.
C20_FailuresAreShown ==
    [][logged' # logged => toast' # toast /\ toast'.variant = "destructive"]_vars

\* C26: a profile's id is fixed and a profile is changed by its owner only: in
\* every step each profile row keeps its id, and a row that changes was changed
\* by a request of the caller whose identity is the row's id.
C26_ProfileIdFixedOwnerOnly ==
    [][\A id \in DOMAIN profiles :
          /\ id \in DOMAIN profiles' /\ profiles'[id].id = profiles[id].id
          /\ profiles'[id] # profiles[id] =>
                /\ resp'.table = "profiles" /\ resp'.op = "update" /\ resp'.result = "ok"
                /\ resp'.caller = profiles[id].id]_vars

\* C26 witness: the owner's own update that would change the row's id is refused.
C26_Witness ==
    /\ resp.table = "profiles" /\ resp.op = "update"
    /\ resp.caller = resp.old.id /\ resp.new.id # resp.old.id
    /\ resp.result = "PolicyDenied" /\ profiles[resp.id] = resp.old

\* C29 as stated: the participant pair of a conversation or appointment never
\* changes: in every step each stored row keeps its student_id and counselor_id.
C29_ParticipantPairFixed ==
    [][/\ \A i \in 1..Len(chat_conversations) :
             /\ chat_conversations'[i].student_id = chat_conversations[i].student_id
             /\ chat_conversations'[i].counselor_id = chat_conversations[i].counselor_id
       /\ \A i \in 1..Len(appointments) :
             /\ appointments'[i].student_id = appointments[i].student_id
             /\ appointments'[i].counselor_id = appointments[i].counselor_id]_vars

\* C30: createVideoCall opens the meeting URL only after the insert succeeded: a
\* call whose insert was rejected or failed opens nothing and shows the error
\* toast; and whenever no createVideoCall is under way isCreating is false.
C30_OpenOnlyAfterInsert ==
    [][/\ (createCall.pc = "insert" /\ createCall'.pc = "done") =>
             IF createCall.result = "ok"
             THEN opened' = opened \cup {MeetingUrl(createCall.room)}
             ELSE /\ opened' = opened
                  /\ toast' = ErrorToast("Failed to create video call")
       /\ opened' # opened =>
             createCall.pc = "insert" /\ createCall'.pc = "done" /\ createCall.result = "ok"
       /\ isCreating' <=> createCall'.pc = "insert"]_vars

\* C30 witness: a createVideoCall whose insert the policies refused has finished:
\* nothing was opened, the error toast is shown, and the control is enabled again.
C30_Witness ==
    /\ createCall.pc = "done" /\ createCall.result = "PolicyDenied"
    /\ opened = {} /\ toast = ErrorToast("Failed to create video call")
    /\ ~isCreating

\* The last write request a handler's call has sent was rejected or got lost.
Rejected(writes) == writes # <<>> /\ writes[Len(writes)].result # "ok"

\* C21: no write is sent twice and a rejected insert is reported: sendMessage
\* sends at most its insert and then its update, the other three handlers one
\* insert; an insert of sendMessage, createConversation or createAppointment
\* that is rejected changes no table and shows the handler's error toast in the
\* same step, which ends the call; createVideoCall's rejected insert changes no
\* table and its call ends with the error toast; a rejected update of
\* sendMessage changes no table and ends the call.
C21_InsertsOnceAndReported ==
    [][/\ Len(issued'.sendMessage) <= 2
       /\ \A i \in 1..Len(issued'.sendMessage) :
             issued'.sendMessage[i].write =
                IF i = 1 THEN "chat_messages.insert" ELSE "chat_conversations.update"
       /\ \A h \in {"createConversation", "createAppointment", "createVideoCall"} :
             Len(issued'[h]) <= 1
       /\ \A h \in DOMAIN issued :
             (issued'[h] # issued[h] /\ Rejected(issued'[h])) =>
                dbVars' = dbVars /\ video_call_sessions' = video_call_sessions
       /\ (issued'.sendMessage # issued.sendMessage /\ Rejected(issued'.sendMessage)) =>
             IF Len(issued'.sendMessage) = 1
             THEN /\ send'.pc = "failed"
                  /\ toast' = ErrorToast("Failed to send message")
                  /\ "Error sending message:" \in logged'
             ELSE send'.pc = "done"
       /\ (issued'.createConversation # issued.createConversation
              /\ Rejected(issued'.createConversation)) =>
             /\ toast' = ErrorToast("Failed to start conversation")
             /\ "Error creating conversation:" \in logged'
       /\ (issued'.createAppointment # issued.createAppointment
              /\ Rejected(issued'.createAppointment)) =>
             /\ toast' = ErrorToast("Failed to create appointment")
             /\ "Error creating appointment:" \in logged'
       /\ (createCall.pc = "insert" /\ createCall'.pc = "done"
              /\ Rejected(issued.createVideoCall)) =>
             /\ toast' = ErrorToast("Failed to create video call")
             /\ "Error creating video call:" \in logged'
             /\ ~isCreating']_vars

\* C21 as stated: every rejected write of sendMessage, createConversation and
\* createAppointment, the update included, changes no table and is reported by
\* an error toast.
C21_AsStated ==
    [][\A h \in {"sendMessage", "createConversation", "createAppointment"} :
          (issued'[h] # issued[h] /\ Rejected(issued'[h])) =>
             dbVars' = dbVars /\ toast'.variant = "destructive"]_vars

\* C21 witness: createAppointment's insert got lost and createVideoCall's was
\* refused by the policies; both were logged, neither table has a row, and the
\* toast of the call that ended last is shown.
C21_Witness ==
    /\ issued.createAppointment = <<Write("appointments.insert", "NetworkError")>>
    /\ issued.createVideoCall = <<Write("video_call_sessions.insert", "PolicyDenied")>>
    /\ createCall.pc = "done"
    /\ {"Error creating appointment:", "Error creating video call:"} \subseteq logged
    /\ appointments = <<>> /\ video_call_sessions = <<>>
    /\ toast = ErrorToast("Failed to create video call")

\* C22: a step in which sendMessage's update is rejected or lost shows no toast
\* and logs nothing, clears the draft, ends the call (no further request), and
\* changes no table: the message inserted stays stored and the conversation
\* keeps its last_message_at.
C22_UpdateFailureDropped ==
    [][(issued'.sendMessage # issued.sendMessage /\ Len(issued'.sendMessage) = 2
          /\ Rejected(issued'.sendMessage)) =>
          /\ toast' = toast /\ logged' = logged
          /\ newMessage' = <<>>
          /\ send'.pc = "done"
          /\ chat_messages' = chat_messages
          /\ send.msg \in 1..Len(chat_messages') /\ chat_messages'[send.msg] # NoRow
          /\ chat_conversations' = chat_conversations]_vars

\* C22 witness: sendMessage has ended after its update got lost: the draft is
\* empty, no error toast is shown, the message is stored, and the conversation's
\* last_message_at is older than the message.
C22_Witness ==
    /\ send.pc = "done"
    /\ Len(issued.sendMessage) = 2 /\ issued.sendMessage[2].result = "NetworkError"
    /\ newMessage = <<>>
    /\ toast.variant # "destructive"
    /\ chat_conversations[send.conv].last_message_at < chat_messages[send.msg].created_at

\* C23: the update is sent only by a call whose insert returned without an error
\* and stored the message; a call whose insert is rejected sends no update, keeps
\* the draft, changes no table and shows the error toast.
C23_UpdateOnlyAfterInsert ==
    [][/\ (issued'.sendMessage # issued.sendMessage /\ Len(issued'.sendMessage) = 2) =>
             /\ issued.sendMessage = <<Write("chat_messages.insert", "ok")>>
             /\ send.msg \in 1..Len(chat_messages)
             /\ chat_messages[send.msg].sender_id = profile
             /\ chat_messages[send.msg].conversation_id = send.conv
       /\ (issued'.sendMessage # <<>> /\ issued'.sendMessage[1].result # "ok") =>
             Len(issued'.sendMessage) = 1
       /\ (issued'.sendMessage # issued.sendMessage /\ Len(issued'.sendMessage) = 1
              /\ Rejected(issued'.sendMessage)) =>
             /\ send'.pc = "failed"
             /\ newMessage' = newMessage /\ Trim(newMessage') # <<>>
             /\ dbVars' = dbVars
             /\ toast' = ErrorToast("Failed to send message")]_vars

\* C23 witness: sendMessage's insert got lost: the call has ended with only the
\* insert sent, the draft is still in the input and the error toast is shown.
C23_Witness ==
    /\ send.pc = "failed"
    /\ issued.sendMessage = <<Write("chat_messages.insert", "NetworkError")>>
    /\ Trim(newMessage) # <<>>
    /\ toast = ErrorToast("Failed to send message")

\* createAppointment's test of the profile and the required fields fails.
FormInvalid ==
    \/ profile = NoUser
    \/ appointmentForm.counselor_id = ""
    \/ appointmentForm.scheduled_start = 0
    \/ appointmentForm.scheduled_end = 0

\* sendMessage's test of the draft, the selection and the profile fails.
DraftInvalid ==
    Trim(newMessage) = <<>> \/ selectedConversation = NoConversation \/ profile = NoUser

\* C24: an insert into appointments is sent only from a state with a profile
\* and the three required fields filled in, and a createAppointment call that
\* sends none shows the required-fields toast and leaves form, list and table as
\* they are; an insert into chat_messages is sent only with a non-blank draft, a
\* selected conversation and a profile; a meeting URL is opened only for a room
\* id that is not blank.
C24_ValidationPreventsWrite ==
    [][/\ (appointments' # appointments
              \/ (issued'.createAppointment # issued.createAppointment
                    /\ issued'.createAppointment # <<>>)) => ~FormInvalid
       /\ ((issued'.createAppointment # issued.createAppointment
               /\ issued'.createAppointment = <<>>)
              \/ (toast' # toast /\ toast' = ErrorToast("Please fill in all required fields"))) =>
             /\ FormInvalid
             /\ toast' = ErrorToast("Please fill in all required fields")
             /\ issued'.createAppointment = <<>>
             /\ appointmentForm' = appointmentForm
             /\ appointmentList' = appointmentList
             /\ appointments' = appointments
       /\ (chat_messages' # chat_messages
              \/ (issued'.sendMessage # issued.sendMessage
                    /\ Len(issued'.sendMessage) = 1)) => ~DraftInvalid
       /\ (send' # send /\ send'.pc = "returned") =>
             DraftInvalid /\ issued'.sendMessage = <<>> /\ dbVars' = dbVars
       /\ opened' # opened => Trim(roomId) # <<>>
       /\ (toast' # toast /\ toast' = ErrorToast("Please enter a room ID")) =>
             Trim(roomId) = <<>> /\ opened' = opened]_vars

\* C24 witness: with a conversation selected and a draft of blanks sendMessage
\* has returned without an insert; the create dialog is filled in only in part
\* and no appointment is stored; joinVideoCall with a room id of blanks has
\* shown its toast and opened nothing.
C24_Witness ==
    /\ send.pc = "returned" /\ newMessage = <<" ">>
    /\ selectedConversation # NoConversation /\ chat_messages = <<>>
    /\ appointmentForm.counselor_id = "k1" /\ appointmentForm.scheduled_end = 0
    /\ issued.createAppointment = <<>> /\ appointments = <<>>
    /\ roomId = <<" ">> /\ opened = {}
    /\ toast = ErrorToast("Please enter a room ID")

\* The column the role's filter compares with the profile's id holds it.
Scoped(row) ==
    IF Role[profile] = "student" THEN row.student_id = profile
    ELSE row.counselor_id = profile

\* The elements of a list.
Range(list) == {list[i] : i \in 1..Len(list)}

\* C25: every row that a step places in the local conversation list or in the
\* local appointment list (all rows of a fetch's answer, the new row of a
\* create) has the profile's id in student_id if the profile's role is student
\* and in counselor_id otherwise, so the profile is a participant of it.
C25_ListsRoleScoped ==
    [][/\ \A c \in Range(conversations') :
             (c \notin Range(conversations) \/ (convReq /\ ~convReq')) =>
                /\ Scoped(chat_conversations'[c])
                /\ Party(profile, chat_conversations'[c])
       /\ \A a \in Range(appointmentList') :
             (a \notin Range(appointmentList) \/ (apptReq /\ ~apptReq')) =>
                /\ Scoped(appointments'[a])
                /\ Party(profile, appointments'[a])]_vars

\* C25 witness: the counselor's client has fetched both lists and each holds a
\* row, in which the counselor is counselor_id.
C25_Witness ==
    /\ profile = "k1"
    /\ ~convReq /\ conversations # <<>>
    /\ ~apptReq /\ appointmentList # <<>>
    /\ chat_conversations[conversations[1]].counselor_id = "k1"
    /\ appointments[appointmentList[1]].counselor_id = "k1"

\* C27: every entry of the local message list is a message of the selected
\* conversation.
C27_ListOfSelectedConversation ==
    \A id \in Range(messages) : chat_messages[id].conversation_id = selectedConversation

\* C28: while the conversation stays selected, a message of it that is in the
\* local message list (appended by its follow-up fetch or loaded with the
\* history) is still in the list after every step.
C28_MergeKeepsMessages ==
    [][selectedConversation' = selectedConversation =>
          \A id \in Range(messages) :
             chat_messages[id].conversation_id = selectedConversation =>
                id \in Range(messages')]_vars

====
